---- MODULE Spec2Model ----
(***************************************************************************)
(* Model of queries.js: main() connects to the plp_bookstore store, runs a *)
(* fixed catalog of operations on the books collection inside one try      *)
(* block, logs any error in the catch clause and closes the client in the  *)
(* finally clause.  The store (documents and index metadata) persists from *)
(* one run of the script to the next.  Prices are in cents.                *)
(***************************************************************************)
EXTENDS Integers, Sequences, FiniteSets

VARIABLES
    docs,          \* the books collection, in natural (insertion) order
    indexes,       \* index metadata of the collection
    run,           \* number of the current run of the script
    pc,            \* position of main(): try, catch, finally, closing, settled, exited
    k,             \* position in the try block: index of the next statement in Order
    outstanding,   \* database calls issued and not yet settled
    issued,        \* calls issued in this run, in order
    completed,     \* calls of this run that resolved
    failed,        \* calls of this run that rejected
    err,           \* the exception in flight (name of the call that threw) or "none"
    errLog,        \* console.error output of this run
    net,           \* how the store answered the last call: ok or down
    result,        \* the value the last call resolved to
    modifiedCount, \* result.modifiedCount of this run's updateOne, -1 before
    deletedCount,  \* deleteBook.deletedCount of this run's deleteOne, -1 before
    closeCalls,    \* calls of client.close() in this run
    mainState,     \* the promise main() returned: pending, resolved, rejected
    exitCode,      \* exit status of the process, -1 while it runs
    snap,          \* docs right after the first updateOne that resolved
    updateRun,     \* the run of that updateOne, 0 before
    pgSize,        \* pagination walk: page size
    pgNum,         \* pagination walk: next page to fetch
    pages          \* pagination walk: pages fetched so far

storeVars == <<docs, indexes>>
runVars == <<run, pc, k, outstanding, issued, completed, failed, err, errLog, net,
             result, modifiedCount, deletedCount, closeCalls, mainState, exitCode>>
histVars == <<snap, updateRun>>
pageVars == <<pgSize, pgNum, pages>>
vars == <<storeVars, runVars, histVars, pageVars>>

\* ---------------------------------------------------------------- bounds
MaxDocs == 2
MaxRuns == 2
MaxPageSize == 2

\* ------------------------------------------------------------- constants
page == 1
booksPerPage == 5
NewPrice == 1799
AfterYear == 1945
StockYear == 2010
DecadeLen == 10
ExplainYear == 1949

\* ------------------------------------------------------------ documents
\* Shapes of the books the seeding script may have inserted (Book schema).
Books ==
    { [title |-> "The Hobbit", author |-> "J.R.R. Tolkien", genre |-> "Fantasy",
       published_year |-> 1937, price |-> 1499, in_stock |-> TRUE],
      [title |-> "1984", author |-> "George Orwell", genre |-> "Fiction",
       published_year |-> 1949, price |-> 1099, in_stock |-> TRUE],
      [title |-> "The Alchemist", author |-> "Paulo Coelho", genre |-> "Fiction",
       published_year |-> 1988, price |-> 1099, in_stock |-> TRUE],
      [title |-> "Animal Farm", author |-> "George Orwell", genre |-> "Fiction",
       published_year |-> 1950, price |-> 850, in_stock |-> FALSE] }

\* A stored document: the book's fields and the _id the store assigned.
WithId(b, i) ==
    [_id |-> i, title |-> b.title, author |-> b.author, genre |-> b.genre,
     published_year |-> b.published_year, price |-> b.price, in_stock |-> b.in_stock]

InitDocs ==
    UNION { { [i \in 1..n |-> WithId(f[i], i)] : f \in [1..n -> Books] } : n \in 0..MaxDocs }

\* Order of the titles as the store compares strings (binary comparison).
TitleRank(t) ==
    CASE t = "1984" -> 1
      [] t = "Animal Farm" -> 2
      [] t = "The Alchemist" -> 3
      [] t = "The Hobbit" -> 4

\* ------------------------------------------------------- query operators
Min(a, b) == IF a <= b THEN a ELSE b

Perms(n) == { p \in [1..n -> 1..n] : \A i, j \in 1..n : i # j => p[i] # p[j] }

\* $sort / cursor.sort on one key, keys[i] being the key of s[i]: every order
\* of s that is sorted on the key (dir 1 ascending, -1 descending); documents
\* with equal keys come in any order.
SortOrders(s, keys, dir) ==
    { [i \in 1..Len(s) |-> s[p[i]]] :
        p \in { q \in Perms(Len(s)) :
                 \A i \in 1..(Len(s) - 1) : dir * keys[q[i]] <= dir * keys[q[i + 1]] } }

\* Every enumeration of a set of records (the output order of $group).
SetToSeqs(S) ==
    { f \in [1..Cardinality(S) -> S] : \A i, j \in 1..Cardinality(S) : i # j => f[i] # f[j] }

GenreIs(d, g) == d.genre = g
AuthorIs(d, a) == d.author = a
TitleIs(d, t) == d.title = t
PublishedAfter(d, y) == d.published_year > y

FindFantasy(ds) == SelectSeq(ds, LAMBDA d : GenreIs(d, "Fantasy"))
FindOrwell(ds) == SelectSeq(ds, LAMBDA d : AuthorIs(d, "George Orwell"))
RecentBooks(ds) == SelectSeq(ds, LAMBDA d : PublishedAfter(d, AfterYear))
RecentInStock(ds) == SelectSeq(ds, LAMBDA d : d.in_stock = TRUE /\ PublishedAfter(d, StockYear))

ProjectFields(d) == [title |-> d.title, author |-> d.author, price |-> d.price]
ProjectedBooks(ds) == [i \in 1..Len(ds) |-> ProjectFields(ds[i])]

Prices(ds) == [i \in 1..Len(ds) |-> ds[i].price]
BooksByPriceAsc(ds) == SortOrders(ds, Prices(ds), 1)
BooksByPriceDesc(ds) == SortOrders(ds, Prices(ds), -1)

\* cursor.skip(n).limit(m) on an ordered result
SkipLimit(s, n, m) == SubSeq(s, n + 1, Min(Len(s), n + m))

TitleKeys(ds) == [i \in 1..Len(ds) |-> TitleRank(ds[i].title)]
\* find().sort({title:1}).skip((page - 1) * booksPerPage).limit(booksPerPage)
Paginate(ds, pg, perPage) ==
    { SkipLimit(s, (pg - 1) * perPage, perPage) : s \in SortOrders(ds, TitleKeys(ds), 1) }

RECURSIVE SumPrice(_)
SumPrice(s) == IF s = <<>> THEN 0 ELSE Head(s).price + SumPrice(Tail(s))

\* $match genre Fiction, $group by genre with $avg of price (kept as sum / n)
BooksByGenre(ds) ==
    LET m == SelectSeq(ds, LAMBDA d : GenreIs(d, "Fiction"))
    IN  IF m = <<>> THEN <<>>
        ELSE << [_id |-> "Fiction", avgPrice |-> [sum |-> SumPrice(m), n |-> Len(m)]] >>

Authors(ds) == { ds[i].author : i \in 1..Len(ds) }
AuthorGroups(ds) ==
    { [_id |-> a, totalBooks |-> Len(SelectSeq(ds, LAMBDA d : AuthorIs(d, a)))] : a \in Authors(ds) }
TotalBooks(gs) == [i \in 1..Len(gs) |-> gs[i].totalBooks]
\* $group by author, $sort totalBooks descending, $limit 1
MostBooksAuthor(ds) ==
    UNION { { SkipLimit(s, 0, 1) : s \in SortOrders(g, TotalBooks(g), -1) } :
            g \in SetToSeqs(AuthorGroups(ds)) }

\* $mod of the store: the result has the sign of the dividend
Mod(a, b) == IF a >= 0 THEN a % b ELSE 0 - ((0 - a) % b)
Decade(y) == y - Mod(y, DecadeLen)
DecadeProject(d) == [_id |-> d._id, title |-> d.title, decade |-> Decade(d.published_year)]
Titles(ds) == [i \in 1..Len(ds) |-> ds[i].title]
DecadeGroups(ps) ==
    { [_id |-> dec,
       totalSum |-> Len(SelectSeq(ps, LAMBDA d : d.decade = dec)),
       books |-> Titles(SelectSeq(ps, LAMBDA d : d.decade = dec))] :
      dec \in { ps[i].decade : i \in 1..Len(ps) } }
Ids(gs) == [i \in 1..Len(gs) |-> gs[i]._id]
\* Variant: the pipeline has no $sort stage.
DecadeSort_None(gs) == {gs}
DecadeSort(gs) == SortOrders(gs, Ids(gs), 1)
\* $project decade, $group by decade, $sort by decade ascending
BookByDecade(ds) ==
    UNION { DecadeSort(g) : g \in SetToSeqs(DecadeGroups([i \in 1..Len(ds) |-> DecadeProject(ds[i])])) }

\* ------------------------------------------------------ write operators
FirstMatch(ds, t) ==
    IF \E i \in 1..Len(ds) : TitleIs(ds[i], t)
    THEN CHOOSE i \in 1..Len(ds) : TitleIs(ds[i], t) /\ \A j \in 1..(i - 1) : ~TitleIs(ds[j], t)
    ELSE 0

SetPrice(d, p) == [d EXCEPT !.price = p]

\* Variant: the update uses $inc instead of $set.
UpdateOne_Inc(ds) ==
    LET i == FirstMatch(ds, "The Hobbit")
    IN  IF i = 0 THEN [docs |-> ds, matchedCount |-> 0, modifiedCount |-> 0]
        ELSE [docs |-> [ds EXCEPT ![i] = SetPrice(ds[i], ds[i].price + NewPrice)],
              matchedCount |-> 1, modifiedCount |-> 1]

\* updateOne({title: "The Hobbit"}, {$set: {price: 17.99}})
UpdateOne(ds) ==
    LET i == FirstMatch(ds, "The Hobbit")
    IN  IF i = 0 THEN [docs |-> ds, matchedCount |-> 0, modifiedCount |-> 0]
        ELSE [docs |-> [ds EXCEPT ![i] = SetPrice(ds[i], NewPrice)],
              matchedCount |-> 1,
              modifiedCount |-> IF ds[i].price = NewPrice THEN 0 ELSE 1]

\* Variant: deleteMany instead of deleteOne.
DeleteOne_Many(ds) ==
    [docs |-> SelectSeq(ds, LAMBDA d : ~TitleIs(d, "The Alchemist")),
     deletedCount |-> Len(SelectSeq(ds, LAMBDA d : TitleIs(d, "The Alchemist")))]

\* deleteOne({title: "The Alchemist"})
DeleteOne(ds) ==
    LET i == FirstMatch(ds, "The Alchemist")
    IN  IF i = 0 THEN [docs |-> ds, deletedCount |-> 0]
        ELSE [docs |-> SubSeq(ds, 1, i - 1) \o SubSeq(ds, i + 1, Len(ds)), deletedCount |-> 1]

TitleIndex == "title_1"
CompoundIndex == "author_1_published_year_1"
CreateIndex(ix, name) == ix \cup {name}

\* find(filter).explain("executionStats")
\* of a query that the index called name serves and that matches `matched`
Explain(ds, ix, name, matched) ==
    [stage |-> IF name \in ix THEN "IXSCAN" ELSE "COLLSCAN",
     nReturned |-> Len(matched),
     totalDocsExamined |-> IF name \in ix THEN Len(matched) ELSE Len(ds)]
ExplainStats(ds, ix) ==
    Explain(ds, ix, TitleIndex, SelectSeq(ds, LAMBDA d : TitleIs(d, "1984")))
ExplainStats2(ds, ix) ==
    Explain(ds, ix, CompoundIndex,
            SelectSeq(ds, LAMBDA d : AuthorIs(d, "George Orwell")
                                      /\ d.published_year = ExplainYear))

\* ------------------------------------------------------------- main()
\* Variant: the explain queries are written before the createIndex calls.
Order_ExplainFirst ==
    << "connect", "findFantasy", "findOrwell", "yearRange", "updatePrice", "deleteByTitle",
       "compoundFilter", "projection", "sortAsc", "sortDesc", "pagination", "avgPrice",
       "mostBooks", "groupByDecade", "explainTitle", "explainAuthorYear",
       "createTitleIndex", "createCompoundIndex" >>

\* The awaited calls of the try block, in statement order.
Order ==
    << "connect", "findFantasy", "findOrwell", "yearRange", "updatePrice", "deleteByTitle",
       "compoundFilter", "projection", "sortAsc", "sortDesc", "pagination", "avgPrice",
       "mostBooks", "groupByDecade", "createTitleIndex", "createCompoundIndex",
       "explainTitle", "explainAuthorYear" >>

ReadOps ==
    { "findFantasy", "findOrwell", "yearRange", "compoundFilter", "projection", "sortAsc",
      "sortDesc", "pagination", "avgPrice", "mostBooks", "groupByDecade" }

\* The values a read of the catalog may resolve to on the collection ds.
ReadResults(op, ds) ==
    CASE op = "findFantasy" -> { FindFantasy(ds) }
      [] op = "findOrwell" -> { FindOrwell(ds) }
      [] op = "yearRange" -> { RecentBooks(ds) }
      [] op = "compoundFilter" -> { RecentInStock(ds) }
      [] op = "projection" -> { ProjectedBooks(ds) }
      [] op = "sortAsc" -> BooksByPriceAsc(ds)
      [] op = "sortDesc" -> BooksByPriceDesc(ds)
      [] op = "pagination" -> Paginate(ds, page, booksPerPage)
      [] op = "avgPrice" -> { BooksByGenre(ds) }
      [] op = "mostBooks" -> MostBooksAuthor(ds)
      [] op = "groupByDecade" -> BookByDecade(ds)

\* Variant: the calls are started without being awaited.
CanIssue_NoAwait == TRUE

\* Each call is awaited: the next statement runs when no call is pending.
CanIssue == outstanding = {}

\* Variant: each statement has its own handler and the run carries on with
\* the statement after the one that threw.
AfterCatch_Continue == [pc |-> "try", k |-> k]

\* Variant: close() is the last statement of the try block and there is no
\* finally clause, so a run that threw returns without closing.
AfterCatch_NoFinally == [pc |-> "settled", k |-> k]

\* The catch clause logs the error and falls through to the finally clause.
AfterCatch == [pc |-> "finally", k |-> k]

\* Leaving the try block normally also enters the finally clause.
AfterTry == "finally"

\* Variant: main() is called without a rejection handler.
TopLevelCatch_Missing == FALSE

\* main().catch(console.error): a rejection of main() is handled.
TopLevelCatch == TRUE

InitStore ==
    /\ docs \in InitDocs
    /\ indexes = {"_id_"}

InitRun ==
    /\ run = 1
    /\ pc = "try"
    /\ k = 1
    /\ outstanding = {}
    /\ issued = <<>>
    /\ completed = {}
    /\ failed = {}
    /\ err = "none"
    /\ errLog = <<>>
    /\ net = "ok"
    /\ result = <<>>
    /\ modifiedCount = -1
    /\ deletedCount = -1
    /\ closeCalls = 0
    /\ mainState = "pending"
    /\ exitCode = -1
    /\ snap = <<>>
    /\ updateRun = 0

Init ==
    /\ InitStore
    /\ InitRun
    /\ pgSize = booksPerPage
    /\ pgNum = page
    /\ pages = <<>>

\* The next awaited call of the try block is sent to the store.
Issue ==
    /\ pc = "try"
    /\ k <= Len(Order)
    /\ CanIssue
    /\ outstanding' = outstanding \cup {Order[k]}
    /\ issued' = Append(issued, Order[k])
    /\ k' = k + 1
    /\ UNCHANGED <<storeVars, run, pc, completed, failed, err, errLog, net, result,
                   modifiedCount, deletedCount, closeCalls, mainState, exitCode,
                   histVars, pageVars>>

\* What every resolved call of the try block does to the run.
Resolve(op, r) ==
    /\ pc = "try"
    /\ op \in outstanding
    /\ outstanding' = outstanding \ {op}
    /\ completed' = completed \cup {op}
    /\ net' = "ok"
    /\ result' = r
    /\ UNCHANGED <<run, pc, k, issued, failed, err, errLog, closeCalls, mainState, exitCode,
                   pageVars>>

\* client.connect() resolves.
Connect ==
    /\ Resolve("connect", "connected")
    /\ UNCHANGED <<storeVars, modifiedCount, deletedCount, histVars>>

\* Variant: the compound-filter pipeline ends in a $out stage to books.
ReadEffect_Out(op, ds) == IF op = "compoundFilter" THEN RecentInStock(ds) ELSE ds

\* The collection after a find or an aggregate: no pipeline has a $out or
\* $merge stage and no cursor writes, so it is the collection before.
ReadEffect(op, ds) == ds

\* A find or an aggregate resolves to its documents.
Read ==
    \E op \in ReadOps : \E r \in ReadResults(op, docs) :
        /\ Resolve(op, r)
        /\ docs' = ReadEffect(op, docs)
        /\ UNCHANGED <<indexes, modifiedCount, deletedCount, histVars>>

\* collection.updateOne resolves.
UpdatePrice ==
    LET u == UpdateOne(docs)
    IN  /\ Resolve("updatePrice", [matchedCount |-> u.matchedCount,
                                   modifiedCount |-> u.modifiedCount])
        /\ docs' = u.docs
        /\ modifiedCount' = u.modifiedCount
        /\ IF updateRun = 0
           THEN snap' = u.docs /\ updateRun' = run
           ELSE UNCHANGED histVars
        /\ UNCHANGED <<indexes, deletedCount>>

\* collection.deleteOne resolves.
DeleteByTitle ==
    LET d == DeleteOne(docs)
    IN  /\ Resolve("deleteByTitle", [deletedCount |-> d.deletedCount])
        /\ docs' = d.docs
        /\ deletedCount' = d.deletedCount
        /\ UNCHANGED <<indexes, modifiedCount, histVars>>

\* collection.createIndex({title: 1}) resolves.
CreateTitleIndex ==
    /\ Resolve("createTitleIndex", TitleIndex)
    /\ indexes' = CreateIndex(indexes, TitleIndex)
    /\ UNCHANGED <<docs, modifiedCount, deletedCount, histVars>>

\* collection.createIndex({author: 1, published_year: 1}) resolves.
CreateCompoundIndex ==
    /\ Resolve("createCompoundIndex", CompoundIndex)
    /\ indexes' = CreateIndex(indexes, CompoundIndex)
    /\ UNCHANGED <<docs, modifiedCount, deletedCount, histVars>>

\* find({title: "1984"}).explain("executionStats") resolves.
ExplainTitle ==
    /\ Resolve("explainTitle", ExplainStats(docs, indexes))
    /\ UNCHANGED <<storeVars, modifiedCount, deletedCount, histVars>>

\* find({author: "George Orwell", published_year: 1949}).explain(...) resolves.
ExplainAuthorYear ==
    /\ Resolve("explainAuthorYear", ExplainStats2(docs, indexes))
    /\ UNCHANGED <<storeVars, modifiedCount, deletedCount, histVars>>

\* An awaited call of the try block rejects: control jumps to the catch clause.
Fail ==
    \E op \in outstanding :
        /\ pc = "try"
        /\ outstanding' = outstanding \ {op}
        /\ failed' = failed \cup {op}
        /\ net' = "down"
        /\ err' = op
        /\ pc' = "catch"
        /\ UNCHANGED <<storeVars, run, k, issued, completed, errLog, result, modifiedCount,
                       deletedCount, closeCalls, mainState, exitCode, histVars, pageVars>>

\* catch (err) { console.error('Error occurred:', err); }
Catch ==
    /\ pc = "catch"
    /\ errLog' = Append(errLog, err)
    /\ err' = "none"
    /\ pc' = AfterCatch.pc
    /\ k' = AfterCatch.k
    /\ UNCHANGED <<storeVars, run, outstanding, issued, completed, failed, net, result,
                   modifiedCount, deletedCount, closeCalls, mainState, exitCode,
                   histVars, pageVars>>

\* The last statement of the try block has run.
EndTry ==
    /\ pc = "try"
    /\ k > Len(Order)
    /\ outstanding = {}
    /\ pc' = AfterTry
    /\ UNCHANGED <<storeVars, run, k, outstanding, issued, completed, failed, err, errLog,
                   net, result, modifiedCount, deletedCount, closeCalls, mainState, exitCode,
                   histVars, pageVars>>

\* finally { await client.close(); ... }: close is called.
Finally ==
    /\ pc = "finally"
    /\ closeCalls' = closeCalls + 1
    /\ outstanding' = outstanding \cup {"close"}
    /\ issued' = Append(issued, "close")
    /\ pc' = "closing"
    /\ UNCHANGED <<storeVars, run, k, completed, failed, err, errLog, net, result,
                   modifiedCount, deletedCount, mainState, exitCode, histVars, pageVars>>

\* client.close() resolves, 'Connection closed' is logged and main() returns.
CloseOk ==
    /\ pc = "closing"
    /\ "close" \in outstanding
    /\ outstanding' = outstanding \ {"close"}
    /\ completed' = completed \cup {"close"}
    /\ net' = "ok"
    /\ mainState' = IF err = "none" THEN "resolved" ELSE "rejected"
    /\ pc' = "settled"
    /\ UNCHANGED <<storeVars, run, k, issued, failed, err, errLog, result, modifiedCount,
                   deletedCount, closeCalls, exitCode, histVars, pageVars>>

\* client.close() rejects inside the finally clause: main() rejects with it.
CloseFail ==
    /\ pc = "closing"
    /\ "close" \in outstanding
    /\ outstanding' = outstanding \ {"close"}
    /\ failed' = failed \cup {"close"}
    /\ net' = "down"
    /\ err' = "close"
    /\ mainState' = "rejected"
    /\ pc' = "settled"
    /\ UNCHANGED <<storeVars, run, k, issued, completed, errLog, result, modifiedCount,
                   deletedCount, closeCalls, exitCode, histVars, pageVars>>

\* main().catch(console.error), then the process ends: status 1 only when a
\* rejection was left unhandled.
Exit ==
    /\ pc = "settled"
    /\ outstanding = {}
    /\ pc' = "exited"
    /\ IF mainState = "rejected" /\ TopLevelCatch
       THEN errLog' = Append(errLog, err) /\ err' = "none"
       ELSE UNCHANGED <<errLog, err>>
    /\ exitCode' = IF mainState = "rejected" /\ ~TopLevelCatch THEN 1 ELSE 0
    /\ UNCHANGED <<storeVars, run, k, outstanding, issued, completed, failed, net, result,
                   modifiedCount, deletedCount, closeCalls, mainState, histVars, pageVars>>

\* The script is started again on the same store.
NextRun ==
    /\ pc = "exited"
    /\ run < MaxRuns
    /\ run' = run + 1
    /\ pc' = "try"
    /\ k' = 1
    /\ outstanding' = {}
    /\ issued' = <<>>
    /\ completed' = {}
    /\ failed' = {}
    /\ err' = "none"
    /\ errLog' = <<>>
    /\ net' = "ok"
    /\ result' = <<>>
    /\ modifiedCount' = -1
    /\ deletedCount' = -1
    /\ closeCalls' = 0
    /\ mainState' = "pending"
    /\ exitCode' = -1
    /\ UNCHANGED <<storeVars, histVars, pageVars>>

\* The steps of one run of main().
Main ==
    \/ Issue
    \/ Connect
    \/ Read
    \/ UpdatePrice
    \/ DeleteByTitle
    \/ CreateTitleIndex
    \/ CreateCompoundIndex
    \/ ExplainTitle
    \/ ExplainAuthorYear
    \/ Fail
    \/ Catch
    \/ EndTry
    \/ Finally
    \/ CloseOk
    \/ CloseFail
    \/ Exit

Next ==
    \/ Main
    \/ NextRun

Spec == Init /\ [][Next]_vars

\* One run of main() on a store as the seeding script or earlier runs left it.
\* Every awaited promise settles and the event loop keeps running main() until
\* it returns.
InitAnyStore ==
    /\ docs \in InitDocs
    /\ indexes \in { {"_id_"}, {"_id_", TitleIndex}, {"_id_", TitleIndex, CompoundIndex} }
    /\ InitRun
    /\ pgSize = booksPerPage
    /\ pgNum = page
    /\ pages = <<>>

FairSpec == InitAnyStore /\ [][Main]_vars /\ WF_vars(Main)

\* ------------------------------------------------- walking the pages
\* The pagination query of main() asked for page 1, 2, 3, ... of a collection,
\* one query per page, until a page comes back empty.
InitPage ==
    /\ InitStore
    /\ InitRun
    /\ pgSize \in 1..MaxPageSize
    /\ pgNum = 1
    /\ pages = <<>>

FetchPage ==
    /\ IF pages = <<>> THEN TRUE ELSE pages[Len(pages)] # <<>>
    /\ \E r \in Paginate(docs, pgNum, pgSize) : pages' = Append(pages, r)
    /\ pgNum' = pgNum + 1
    /\ UNCHANGED <<storeVars, runVars, histVars, pgSize>>

NextPage == FetchPage

SpecPage == InitPage /\ [][NextPage]_vars

\* ------------------------------------------------------------ properties
Count(s, x) == Cardinality({ i \in 1..Len(s) : s[i] = x })
IndexOf(s, x) == CHOOSE i \in 1..Len(s) : s[i] = x
Prefix(s, n) == SubSeq(s, 1, n)
CatalogCalls == { Order[i] : i \in 1..Len(Order) }
\* The calls issued in this run, client.close() left out.
IssuedInTry == SelectSeq(issued, LAMBDA c : c # "close")

RECURSIVE Flatten(_)
Flatten(ss) == IF ss = <<>> THEN <<>> ELSE Head(ss) \o Flatten(Tail(ss))

RECURSIVE SumTotals(_)
SumTotals(r) == IF r = <<>> THEN 0 ELSE Head(r).totalSum + SumTotals(Tail(r))

\* C1: in every run of main(), whether connect or any catalog call fails or all
\* succeed, client.close() is eventually called, it is called exactly once, and
\* no catalog call is issued once close() has been called.
C1_CloseOnce ==
    /\ [](closeCalls <= 1)
    /\ [](pc = "exited" => closeCalls = 1)
    /\ [](closeCalls = 1 =>
            /\ issued[Len(issued)] = "close"
            /\ Count(issued, "close") = 1
            /\ outstanding \subseteq {"close"})
    /\ (closeCalls = 0) ~> (closeCalls = 1)

C1_Witness ==
    /\ pc = "exited"
    /\ closeCalls = 1
    /\ "connect" \in failed

\* C2 as stated: the process exits non-zero exactly when client.connect()
\* failed, and zero in every other run.
C2_Original == pc = "exited" => (exitCode # 0 <=> "connect" \in failed)

\* C2 as amended: the process exits with status zero in every run, the runs in
\* which client.connect() fails included.
C2_ExitZero == pc = "exited" => exitCode = 0

C2_Witness ==
    /\ pc = "exited"
    /\ "connect" \in failed
    /\ exitCode = 0

\* C3: when connect or a catalog call fails, the error is logged once, the call
\* is not retried, no later catalog call is issued and the run goes straight
\* on to closing the connection.
C3_LogAndTerminate ==
    \A op \in failed \ {"close"} :
        /\ Count(issued, op) = 1
        /\ Count(errLog, op) = IF pc = "catch" THEN 0 ELSE 1
        /\ IssuedInTry = Prefix(Order, IndexOf(Order, op))
        /\ pc \in {"catch", "finally", "closing", "settled", "exited"}
        /\ outstanding \subseteq {"close"}
        /\ pc \in {"closing", "settled", "exited"} =>
              issued = Prefix(Order, IndexOf(Order, op)) \o <<"close">>

C3_Witness ==
    /\ pc = "exited"
    /\ "updatePrice" \in failed
    /\ errLog = <<"updatePrice">>

\* C4: the calls are issued one at a time in the fixed order of the catalog:
\* at most one call is outstanding, and a call is issued only after the call
\* before it has completed successfully; close comes last.
C4_Sequential ==
    /\ Cardinality(outstanding) <= 1
    /\ IssuedInTry = Prefix(Order, Len(IssuedInTry))
    /\ \A i \in 1..Len(issued) :
          /\ issued[i] = "close" => i = Len(issued)
          /\ (i > 1 /\ issued[i] # "close") => issued[i - 1] \in completed
          /\ i < Len(issued) => issued[i] \notin outstanding
    /\ Order = << "connect", "findFantasy", "findOrwell", "yearRange", "updatePrice",
                  "deleteByTitle", "compoundFilter", "projection", "sortAsc", "sortDesc",
                  "pagination", "avgPrice", "mostBooks", "groupByDecade",
                  "createTitleIndex", "createCompoundIndex", "explainTitle",
                  "explainAuthorYear" >>

C4_Witness ==
    /\ pc = "exited"
    /\ failed = {}
    /\ issued = Order \o <<"close">>

\* C5: only the update-price and delete-by-title steps change the documents of
\* the collection and only the two createIndex steps change its index metadata;
\* every other step leaves both as they were.
C5_Frame ==
    [][ /\ docs' # docs =>
            \/ completed' \ completed = {"updatePrice"}
            \/ completed' \ completed = {"deleteByTitle"}
        /\ indexes' # indexes =>
            \/ completed' \ completed = {"createTitleIndex"}
            \/ completed' \ completed = {"createCompoundIndex"} ]_vars

C5_Witness ==
    /\ pc = "exited"
    /\ failed = {}
    /\ modifiedCount = 1
    /\ deletedCount = 1
    /\ indexes = {"_id_", TitleIndex, CompoundIndex}

\* The page walk has fetched every page: the last query came back empty.
WalkDone == pages # <<>> /\ pages[Len(pages)] = <<>>

\* C6: every page has at most pgSize documents, and the pages taken in order
\* make up the title-sorted collection, each document once and none missing,
\* also when documents share a title.
C6_Partition ==
    /\ \A n \in 1..Len(pages) : Len(pages[n]) <= pgSize
    /\ WalkDone =>
          /\ Flatten(pages) \in SortOrders(docs, TitleKeys(docs), 1)
          /\ \A i \in 1..Len(docs) : Count(Flatten(pages), docs[i]) = 1

\* C7: the update step modifies at most one document and reports 0 or 1; once
\* an update of an earlier run has been applied, the update of a later run
\* reports modifiedCount = 0 and every price stays as the first update left it.
C7_UpdateIdempotent ==
    /\ [][ completed' \ completed = {"updatePrice"} =>
              /\ modifiedCount' \in {0, 1}
              /\ Len(docs') = Len(docs)
              /\ Cardinality({ i \in 1..Len(docs) : docs'[i] # docs[i] }) = modifiedCount'
              /\ \A i \in 1..Len(docs) :
                    docs'[i] # docs[i] =>
                        /\ docs[i].title = "The Hobbit"
                        /\ docs'[i] = [docs[i] EXCEPT !.price = NewPrice]
              /\ updateRun # 0 => (modifiedCount' = 0 /\ docs' = docs) ]_vars
    /\ [](updateRun # 0 =>
            \A i \in 1..Len(docs) :
                \E j \in 1..Len(snap) :
                    snap[j]._id = docs[i]._id /\ snap[j].price = docs[i].price)

C7_Witness ==
    /\ run = 2
    /\ updateRun = 1
    /\ "updatePrice" \in completed
    /\ modifiedCount = 0
    /\ Len(docs) = 2
    /\ docs[1].title = "The Hobbit" /\ docs[1].price = NewPrice
    /\ docs[2].title = "The Hobbit" /\ docs[2].price # NewPrice

HasTitle(ds, t) == \E i \in 1..Len(ds) : ds[i].title = t

\* C8: the delete step removes at most one document titled "The Alchemist" and
\* reports 0 or 1; with no such document it reports 0, leaves the collection
\* as it is, raises no error and the run goes on with the next catalog call.
C8_DeleteAtMostOne ==
    [][ completed' \ completed = {"deleteByTitle"} =>
           /\ deletedCount' \in {0, 1}
           /\ Len(docs') = Len(docs) - deletedCount'
           /\ \E i \in 1..(Len(docs) + 1) :
                 /\ docs' = SubSeq(docs, 1, i - 1) \o SubSeq(docs, i + deletedCount', Len(docs))
                 /\ deletedCount' = 1 => docs[i].title = "The Alchemist"
           /\ HasTitle(docs, "The Alchemist") => deletedCount' = 1
           /\ ~HasTitle(docs, "The Alchemist") =>
                 /\ deletedCount' = 0
                 /\ docs' = docs
                 /\ err' = "none" /\ errLog' = errLog /\ failed' = failed
                 /\ pc' = "try" /\ outstanding' = {} /\ Order[k'] = "compoundFilter" ]_vars

C8_Witness ==
    /\ "deleteByTitle" \in completed
    /\ deletedCount = 0
    /\ docs # <<>>
    /\ failed = {}
    /\ "compoundFilter" \in completed

\* The value of bookByDecade is the last value a call resolved to.
HasBookByDecade == "groupByDecade" \in completed /\ "createTitleIndex" \notin completed

\* C9: every document is counted in exactly one record, the one keyed
\* y - (y mod 10) for its published_year y; there is one record per decade, its
\* count is the number of titles collected in it, the counts sum to the number
\* of documents and the records are in strictly ascending decade order.
C9_GroupByDecade ==
    HasBookByDecade =>
        /\ \A i \in 1..Len(docs) :
              Cardinality({ j \in 1..Len(result) :
                  result[j]._id = docs[i].published_year - (docs[i].published_year % 10) }) = 1
        /\ \A j \in 1..Len(result) :
              /\ result[j].totalSum = Len(result[j].books)
              /\ result[j].totalSum =
                    Cardinality({ i \in 1..Len(docs) :
                        docs[i].published_year - (docs[i].published_year % 10) = result[j]._id })
              /\ result[j].totalSum >= 1
              /\ \A n \in 1..Len(result[j].books) :
                    \E i \in 1..Len(docs) :
                        /\ docs[i].title = result[j].books[n]
                        /\ docs[i].published_year - (docs[i].published_year % 10) = result[j]._id
        /\ SumTotals(result) = Len(docs)
        /\ \A j \in 1..(Len(result) - 1) : result[j]._id < result[j + 1]._id

C9_Witness ==
    /\ HasBookByDecade
    /\ Len(docs) = 2
    /\ docs[1].published_year = 1950
    /\ docs[2].published_year = 1949
    /\ result = << [_id |-> 1940, totalSum |-> 1, books |-> <<"1984">>],
                   [_id |-> 1950, totalSum |-> 1, books |-> <<"Animal Farm">>] >>

ExplainCalls == {"explainTitle", "explainAuthorYear"}
CreateIndexCalls == {"createTitleIndex", "createCompoundIndex"}
IssuedCalls == { issued[i] : i \in 1..Len(issued) }

\* C10: an explain query is issued only after both createIndex calls have
\* completed successfully, and a run in which a createIndex call fails issues
\* no explain query.
C10_IndexBeforeExplain ==
    /\ IssuedCalls \cap ExplainCalls # {} =>
          /\ CreateIndexCalls \subseteq completed
          /\ {TitleIndex, CompoundIndex} \subseteq indexes
    /\ failed \cap CreateIndexCalls # {} => IssuedCalls \cap ExplainCalls = {}

C10_Witness ==
    /\ pc = "exited"
    /\ ExplainCalls \subseteq completed
    /\ result.stage = "IXSCAN"

====
